---- MODULE Spec2Model ----
(***************************************************************************)
(* State-machine model of the SSR Styles storefront backend (src/index.js):*)
(* the account store, the product catalog, the JWT issuer/verifier, and    *)
(* the request handlers, each split at its awaits on the database.         *)
(***************************************************************************)
EXTENDS Integers, Sequences, FiniteSets, TLC

\* ------------------------------------------------------------ bounds
\* Request slots: how many requests can be in flight at once.
NumReqs == 2
\* How many state-changing requests (addtocart, removefromcart, addproduct)
\* reach their handler.
MaxOps == 3
\* How many times the clock advances.
MaxTicks == 3

\* ------------------------------------------------- program constants
\* for (let i = 0; i < 100; i++) cart[i] = 0
CartSlots == 100
\* expiresIn: '1h', in seconds (the unit of a JWT's iat and exp)
ExpiresIn == 3600

\* The clock moves in steps of half the token lifetime.
TickStep == ExpiresIn \div 2

Reqs == 1..NumReqs

\* ------------------------------------------------------ input domains
Emails == {"a@x", "b@x"}
Passwords == {"pw", ""}
Names == {"n"}
ProductNames == {"shirt", "dress"}
Salts == {"s1", "s2"}
\* Two seeded cart keys (1 is also a product id) and the first key signup
\* does not seed.
ItemIds == {0, 1, CartSlots}
ProductIds == 1..(MaxOps + 1)

VARIABLES
    users,      \* the users collection: sequence of documents, _id = index
    products,   \* the products collection in natural order: sequence of ids
    now,        \* the clock, in seconds
    issued,     \* tokens handed out in signup and login responses
    req,        \* per request slot: the running handler's position and locals
    last,       \* the response sent most recently, with its request
    net,        \* history: per account and item, successful adds - removes
    nOps,       \* history: state-changing requests admitted so far
    raced       \* history: per account, whether two cart writers overlapped

vars == <<users, products, now, issued, req, last, net, nOps, raced>>

\* ----------------------------------------------------------- CryptoJS
\* CryptoJS.AES.encrypt(message, passphrase): a salted ciphertext that only
\* the same passphrase opens.
AESEncrypt(message, passphrase, salt) ==
    [salt |-> salt, key |-> passphrase, plain |-> message]

\* CryptoJS.AES.decrypt(ciphertext, passphrase).toString(CryptoJS.enc.Utf8)
AESDecrypt(ciphertext, passphrase) ==
    IF ciphertext.key = passphrase THEN ciphertext.plain ELSE "?"

NoCipher == [salt |-> "", key |-> "", plain |-> ""]

\* ------------------------------------------------------- jsonwebtoken
NoToken == [fmt |-> "absent", userId |-> 0, iat |-> 0, exp |-> 0, sig |-> ""]
Garbage == [fmt |-> "garbage", userId |-> 0, iat |-> 0, exp |-> 0, sig |-> ""]

\* Variant: the token names the id after the one asked for.
JwtSignNextId(userId, secret, expiresIn, t) ==
    [fmt |-> "jwt", userId |-> userId + 1, iat |-> t, exp |-> t + expiresIn,
     sig |-> secret]

\* Variant: the token lives twice the requested time.
JwtSignTwice(userId, secret, expiresIn, t) ==
    [fmt |-> "jwt", userId |-> userId, iat |-> t, exp |-> t + 2 * expiresIn,
     sig |-> secret]

\* jwt.sign({ userId }, secret, { expiresIn }) at time t
JwtSign(userId, secret, expiresIn, t) ==
    [fmt |-> "jwt", userId |-> userId, iat |-> t, exp |-> t + expiresIn,
     sig |-> secret]

\* Variant: ignoreExpiration, the exp claim is not looked at.
JwtVerifiesIgnoringExp(token, secret, t) ==
    token.fmt = "jwt" /\ token.sig = secret

\* jwt.verify(token, secret) at time t: TRUE when it returns the payload,
\* FALSE when it throws (malformed, bad signature, or t >= exp).
JwtVerifies(token, secret, t) ==
    /\ token.fmt = "jwt"
    /\ token.sig = secret
    /\ t < token.exp

\* A well-formed token signed with another key, for an id and a lifetime
\* of the sender's choosing.
Forged(userId) ==
    [fmt |-> "jwt", userId |-> userId, iat |-> 0,
     exp |-> (MaxTicks + 1) * TickStep + ExpiresIn, sig |-> "not the secret"]

\* --------------------------------------------------------------- carts
EmptyCart == [k \in {} |-> 0]

\* for (let i = 0; i < 100; i++) cart[i] = 0
SeedCart == [i \in 0..(CartSlots - 1) |-> 0]

\* !cartData[itemId]: the key is absent (undefined) or holds 0
Falsy(cart, itemId) == itemId \notin DOMAIN cart \/ cart[itemId] = 0

\* cartData[itemId] = v, creating the key when absent
CartSet(cart, itemId, v) ==
    [k \in DOMAIN cart \cup {itemId} |-> IF k = itemId THEN v ELSE cart[k]]

\* The count a cart holds for an item, an absent key counting as 0.
Count(cart, itemId) == IF itemId \in DOMAIN cart THEN cart[itemId] ELSE 0

\* ----------------------------------------------------------- responses
Res(status, msg) ==
    [status |-> status, msg |-> msg, token |-> NoToken, cartData |-> EmptyCart]

ResAuth(status, token, cart) ==
    [status |-> status, msg |-> "success", token |-> token, cartData |-> cart]

AuthError == Res(401, "Please authenticate using a valid token")

\* ------------------------------------------------------- request slots
Idle ==
    [pc |-> "idle", op |-> "", name |-> "", email |-> "", plain |-> "",
     id |-> 0, itemId |-> 0, token |-> NoToken,
     password |-> NoCipher, user |-> 0, userData |-> EmptyCart]

\* A slot is free when no handler is running in it.
Free(r) == req[r].pc = "idle"

\* A handler that starts takes the lowest free slot.
Accepts(r) == Free(r) /\ \A s \in 1..(r - 1) : ~Free(s)

\* The request body and header of a slot, its locals reset.
Body(q) ==
    [Idle EXCEPT !.op = q.op, !.name = q.name, !.email = q.email,
                 !.plain = q.plain, !.id = q.id, !.itemId = q.itemId,
                 !.token = q.token]

\* res.status(...).json(...) / send(...) for request q; n alternates so that
\* two equal responses in a row are still two responses.
Sent(q, res) == [n |-> 1 - last.n, req |-> Body(q), res |-> res]

\* The handler in slot r ends with this response.
Respond(r, res) ==
    /\ req' = [req EXCEPT ![r] = Idle]
    /\ last' = Sent(req[r], res)

Init ==
    /\ users = << >>
    /\ products = << >>
    /\ now = 0
    /\ issued = {}
    /\ req = [r \in Reqs |-> Idle]
    /\ last = [n |-> 0, req |-> Idle, res |-> Res(0, "")]
    /\ net = << >>
    /\ nOps = 0
    /\ raced = << >>

\* User.findOne({ email }): the _id of the matching document, 0 for null
FindByEmail(email) ==
    IF \E u \in DOMAIN users : users[u].email = email
    THEN CHOOSE u \in DOMAIN users : users[u].email = email
    ELSE 0

\* -------------------------------------------------------------- signup
\* Lines 184-203: the existence check, then the seeded cart and the
\* encrypted password of the document to save.
SignupBody(name, email, password) ==
    [Idle EXCEPT !.op = "signup", !.name = name, !.email = email,
                 !.plain = password]

SignupFind(r, name, email, password, salt) ==
    /\ Accepts(r)
    /\ IF FindByEmail(email) # 0
       THEN /\ last' = Sent(SignupBody(name, email, password),
                            Res(400, "Email is already registered!"))
            /\ req' = req
       ELSE /\ req' = [req EXCEPT ![r] =
                 [SignupBody(name, email, password) EXCEPT
                      !.pc = "signup_save",
                      !.password = AESEncrypt(password, "Secret key", salt),
                      !.userData = SeedCart]]
            /\ last' = last
    /\ UNCHANGED <<users, products, now, issued, net, nOps, raced>>

\* email: { unique: true }: the index refuses a second document with the email
UniqueEmailFree(email) == FindByEmail(email) = 0

\* Lines 206-215: newUser.save() throws on the unique index (caught: 500);
\* otherwise the document is stored and a token for its _id is returned.
SignupSave(r) ==
    /\ req[r].pc = "signup_save"
    /\ IF UniqueEmailFree(req[r].email)
       THEN LET id == Len(users) + 1
                token == JwtSign(id, "secret", ExpiresIn, now)
            IN /\ users' = Append(users,
                     [name |-> req[r].name, email |-> req[r].email,
                      password |-> req[r].password,
                      cartData |-> req[r].userData])
               /\ issued' = issued \cup {token}
               /\ net' = Append(net, [i \in ItemIds |-> 0])
               /\ raced' = Append(raced, FALSE)
               /\ Respond(r, ResAuth(201, token, req[r].userData))
       ELSE /\ Respond(r, Res(500, "Internal server error"))
            /\ UNCHANGED <<users, issued, net, raced>>
    /\ UNCHANGED <<products, now, nOps>>

\* --------------------------------------------------------------- login
\* Variant: decrypted with another passphrase than signup encrypted with.
PasswordMatchesOtherKey(stored, password) ==
    AESDecrypt(stored, "secret") = password

\* Lines 233-235: the stored password decrypted and compared
PasswordMatches(stored, password) ==
    AESDecrypt(stored, "Secret key") = password

\* Variant: an unknown email answered like a wrong password.
LoginResponseOneError(email, password) ==
    LET u == FindByEmail(email)
    IN IF u = 0 \/ ~PasswordMatches(users[u].password, password)
       THEN Res(401, "Incorrect password")
       ELSE ResAuth(200, JwtSign(u, "secret", ExpiresIn, now),
                    users[u].cartData)

\* Lines 227-246: the response of login for a request body
LoginResponse(email, password) ==
    LET u == FindByEmail(email)
    IN IF u = 0 THEN Res(404, "User not found")
       ELSE IF ~PasswordMatches(users[u].password, password)
            THEN Res(401, "Incorrect password")
            ELSE ResAuth(200, JwtSign(u, "secret", ExpiresIn, now),
                         users[u].cartData)

LoginBody(email, password) ==
    [Idle EXCEPT !.op = "login", !.email = email, !.plain = password]

\* The handler's one await is the findOne; what follows it is one step.
Login(email, password) ==
    /\ LET res == LoginResponse(email, password)
       IN /\ last' = Sent(LoginBody(email, password), res)
          /\ issued' = IF res.status = 200 THEN issued \cup {res.token}
                       ELSE issued
    /\ UNCHANGED <<users, products, now, req, net, nOps, raced>>

\* ----------------------------------------------------------- fetchUser
\* Variant: jwt.decode for jwt.verify, the payload read without any check.
fetchUserDecodeOnly(token, t) ==
    IF token.fmt = "jwt" THEN token.userId ELSE 0

\* Lines 255-268: req.user for a token that verifies, 0 for the 401 response
fetchUser(token, t) ==
    IF token.fmt = "absent" THEN 0
    ELSE IF JwtVerifies(token, "secret", t) THEN token.userId ELSE 0

Mutating(op) == op \in {"addtocart", "removefromcart"}

CartBody(op, token, itemId) ==
    [Idle EXCEPT !.op = op, !.token = token, !.itemId = itemId]

\* A protected request arrives: fetchUser answers 401 or lets the handler run.
CartStart(r, op, token, itemId) ==
    /\ Accepts(r)
    /\ LET u == fetchUser(token, now)
       IN IF u = 0
          THEN /\ last' = Sent(CartBody(op, token, itemId), AuthError)
               /\ UNCHANGED <<req, nOps>>
          ELSE /\ Mutating(op) => nOps < MaxOps
               /\ req' = [req EXCEPT ![r] =
                      [CartBody(op, token, itemId) EXCEPT
                           !.pc = "cart_find", !.user = u]]
               /\ nOps' = IF Mutating(op) THEN nOps + 1 ELSE nOps
               /\ last' = last
    /\ UNCHANGED <<users, products, now, issued, net, raced>>

\* Another request of the same account sits between its load and its write.
Overlaps(r, u) ==
    \E s \in Reqs \ {r} : req[s].pc = "cart_update" /\ req[s].user = u

\* ----------------------------------------------------------- addtocart
\* Variant: the else branch lost, every add stores 1.
AddedCartAlwaysOne(cart, itemId) == CartSet(cart, itemId, 1)

\* Lines 285-291
AddedCart(cart, itemId) ==
    IF Falsy(cart, itemId)
    THEN CartSet(cart, itemId, 1)
    ELSE CartSet(cart, itemId, cart[itemId] + 1)

\* Lines 273-291: User.findOne({ _id }) and the change to the loaded copy
AddToCartFind(r) ==
    /\ req[r].pc = "cart_find"
    /\ req[r].op = "addtocart"
    /\ LET u == req[r].user
       IN IF u \notin DOMAIN users
          THEN /\ Respond(r, Res(404, "User not found"))
               /\ raced' = raced
          ELSE /\ req' = [req EXCEPT ![r].pc = "cart_update",
                              ![r].userData =
                                  AddedCart(users[u].cartData, req[r].itemId)]
               /\ last' = last
               /\ raced' = IF Overlaps(r, u)
                           THEN [raced EXCEPT ![u] = TRUE] ELSE raced
    /\ UNCHANGED <<users, products, now, issued, net, nOps>>

\* Variant: updateMany with an empty filter, every account gets the cart.
StoreCartEveryone(u, cart) ==
    [v \in DOMAIN users |-> [users[v] EXCEPT !.cartData = cart]]

\* User.findOneAndUpdate({ _id }, { cartData }): the whole cart is replaced
StoreCart(u, cart) ==
    IF u \in DOMAIN users THEN [users EXCEPT ![u].cartData = cart] ELSE users

\* Lines 294-300
AddToCartUpdate(r) ==
    /\ req[r].pc = "cart_update"
    /\ req[r].op = "addtocart"
    /\ users' = StoreCart(req[r].user, req[r].userData)
    /\ net' = [net EXCEPT ![req[r].user][req[r].itemId] = @ + 1]
    /\ Respond(r, Res(200, "Item added to the cart"))
    /\ UNCHANGED <<products, now, issued, nOps, raced>>

\* ------------------------------------------------------ removefromcart
\* Variant: only a missing key is refused.
RemoveRejectsAbsentOnly(cart, itemId) == itemId \notin DOMAIN cart

\* Variant: the truthiness test lost and < written for <=.
RemoveRejectsNegativeOnly(cart, itemId) ==
    itemId \notin DOMAIN cart \/ cart[itemId] < 0

\* Line 320: !cartData[itemId] || cartData[itemId] <= 0
RemoveRejects(cart, itemId) ==
    Falsy(cart, itemId) \/ cart[itemId] <= 0

\* Line 325
RemovedCart(cart, itemId) == CartSet(cart, itemId, cart[itemId] - 1)

\* Lines 311-325
RemoveFromCartFind(r) ==
    /\ req[r].pc = "cart_find"
    /\ req[r].op = "removefromcart"
    /\ LET u == req[r].user
       IN IF u \notin DOMAIN users
          THEN /\ Respond(r, Res(404, "User not found"))
               /\ raced' = raced
          ELSE IF RemoveRejects(users[u].cartData, req[r].itemId)
          THEN /\ Respond(r, Res(400, "Item not found in cart"))
               /\ raced' = raced
          ELSE /\ req' = [req EXCEPT ![r].pc = "cart_update",
                              ![r].userData =
                                  RemovedCart(users[u].cartData, req[r].itemId)]
               /\ last' = last
               /\ raced' = IF Overlaps(r, u)
                           THEN [raced EXCEPT ![u] = TRUE] ELSE raced
    /\ UNCHANGED <<users, products, now, issued, net, nOps>>

\* Lines 328-331
RemoveFromCartUpdate(r) ==
    /\ req[r].pc = "cart_update"
    /\ req[r].op = "removefromcart"
    /\ users' = StoreCart(req[r].user, req[r].userData)
    /\ net' = [net EXCEPT ![req[r].user][req[r].itemId] = @ - 1]
    /\ Respond(r, Res(200, "Removed one item"))
    /\ UNCHANGED <<products, now, issued, nOps, raced>>

\* ------------------------------------------------------------- getcart
\* Lines 342-346: userData.cartData of a null userData throws (caught: 500)
GetCartFind(r) ==
    /\ req[r].pc = "cart_find"
    /\ req[r].op = "getcart"
    /\ LET u == req[r].user
       IN Respond(r, IF u \in DOMAIN users
                     THEN [Res(200, "cart") EXCEPT
                               !.cartData = users[u].cartData]
                     ELSE Res(500, "Internal server error"))
    /\ UNCHANGED <<users, products, now, issued, net, nOps, raced>>

\* ------------------------------------------------------------- catalog
\* Line 113: the last product's id + 1, or 1 for an empty catalog
NextProductId(found) ==
    IF Len(found) > 0 THEN found[Len(found)].id + 1 ELSE 1

\* Lines 112-121: Product.find({}) and the new document
AddProductFind(r, name) ==
    /\ Accepts(r)
    /\ nOps < MaxOps
    /\ nOps' = nOps + 1
    /\ req' = [req EXCEPT ![r] =
           [Idle EXCEPT !.pc = "product_save", !.op = "addproduct",
                        !.name = name, !.id = NextProductId(products)]]
    /\ UNCHANGED <<users, products, now, issued, last, net, raced>>

\* Lines 123-128
AddProductSave(r) ==
    /\ req[r].pc = "product_save"
    /\ products' = Append(products,
                          [id |-> req[r].id, name |-> req[r].name])
    /\ Respond(r, Res(200, "success"))
    /\ UNCHANGED <<users, now, issued, net, nOps, raced>>

\* Variant: deleteMany, every match goes.
DeleteEvery(found, id) == SelectSeq(found, LAMBDA p : p.id # id)

\* Product.findOneAndDelete({ id }): the first match in natural order goes
RECURSIVE DeleteFirst(_, _)
DeleteFirst(found, id) ==
    IF found = << >> THEN << >>
    ELSE IF Head(found).id = id THEN Tail(found)
    ELSE <<Head(found)>> \o DeleteFirst(Tail(found), id)

\* Lines 141-147
\* The handler's one await is the findOneAndDelete.
RemoveProduct(id) ==
    /\ products' = DeleteFirst(products, id)
    /\ last' = Sent([Idle EXCEPT !.op = "removeproduct", !.id = id],
                    Res(200, "success"))
    /\ UNCHANGED <<users, now, issued, req, net, nOps, raced>>

\* --------------------------------------------------------------- clock
Tick ==
    /\ now < MaxTicks * TickStep
    /\ now' = now + TickStep
    /\ UNCHANGED <<users, products, issued, req, last, net, nOps, raced>>

\* The tokens a client can put in the auth-token header: none, garbage, one
\* signed with another key, or any the server has handed out.
Presentable == issued \cup {NoToken, Garbage, Forged(1)}

CartOps == {"addtocart", "removefromcart", "getcart"}

\* ------------------------------------------------------ the system
\* Every request a client can send, every handler step, and the clock.
Next ==
    \/ \E r \in Reqs, n \in Names, e \in Emails, p \in Passwords, s \in Salts :
           SignupFind(r, n, e, p, s)
    \/ \E r \in Reqs : SignupSave(r)
    \/ \E e \in Emails, p \in Passwords : Login(e, p)
    \/ \E r \in Reqs, op \in CartOps, t \in Presentable, i \in ItemIds :
           CartStart(r, op, t, i)
    \/ \E r \in Reqs : AddToCartFind(r)
    \/ \E r \in Reqs : AddToCartUpdate(r)
    \/ \E r \in Reqs : RemoveFromCartFind(r)
    \/ \E r \in Reqs : RemoveFromCartUpdate(r)
    \/ \E r \in Reqs : GetCartFind(r)
    \/ \E r \in Reqs, n \in ProductNames : AddProductFind(r, n)
    \/ \E r \in Reqs : AddProductSave(r)
    \/ \E id \in ProductIds : RemoveProduct(id)
    \/ Tick

Spec == Init /\ [][Next]_vars

\* ------------------------------------------------- client workloads
\* The same handlers under narrower client traffic: each specification
\* below sends a subset of the requests of Next, so each of its behaviours
\* is a behaviour of Spec.

\* Signup requests for the given emails and passwords, and their saves.
Signups(emails, passwords, salts) ==
    \/ \E r \in Reqs, n \in Names, e \in emails, p \in passwords, s \in salts :
           SignupFind(r, n, e, p, s)
    \/ \E r \in Reqs : SignupSave(r)

\* The database steps of the two cart-writing handlers.
CartWriters ==
    \/ \E r \in Reqs : AddToCartFind(r)
    \/ \E r \in Reqs : AddToCartUpdate(r)
    \/ \E r \in Reqs : RemoveFromCartFind(r)
    \/ \E r \in Reqs : RemoveFromCartUpdate(r)

\* The database steps of the three cart handlers.
CartHandlers ==
    \/ CartWriters
    \/ \E r \in Reqs : GetCartFind(r)

\* One account; addtocart and removefromcart with its token on a seeded and
\* an unseeded key, overlapping freely; no clock.
NextCart ==
    \/ Signups({"a@x"}, {"pw"}, {"s1"})
    \/ \E r \in Reqs, op \in {"addtocart", "removefromcart"}, t \in issued,
          i \in {0, CartSlots} :
           CartStart(r, op, t, i)
    \/ CartWriters

SpecCart == Init /\ [][NextCart]_vars

\* Concurrent signups for two emails, and logins.
NextSignup ==
    \/ Signups(Emails, Passwords, Salts)
    \/ \E e \in Emails, p \in Passwords : Login(e, p)

SpecSignup == Init /\ [][NextSignup]_vars

\* One account; logins with right and wrong credentials between cart
\* requests that change what a login returns.
NextLogin ==
    \/ Signups({"a@x"}, Passwords, {"s1"})
    \/ \E e \in Emails, p \in Passwords : Login(e, p)
    \/ \E r \in Reqs, op \in CartOps, t \in issued :
           CartStart(r, op, t, CartSlots)
    \/ CartHandlers

SpecLogin == Init /\ [][NextLogin]_vars

\* Tokens issued at different times by signup and login, presented to a
\* protected endpoint as the clock advances.
NextToken ==
    \/ Signups({"a@x"}, Passwords, {"s1"})
    \/ \E e \in Emails, p \in Passwords : Login(e, p)
    \/ \E r \in Reqs, t \in Presentable : CartStart(r, "getcart", t, 0)
    \/ \E r \in Reqs : GetCartFind(r)
    \/ Tick

SpecToken == Init /\ [][NextToken]_vars

\* Every protected endpoint with absent, malformed, badly signed, expired
\* and valid tokens.
NextGuard ==
    \/ Signups({"a@x"}, {"pw"}, {"s1"})
    \/ \E r \in Reqs, op \in CartOps, t \in Presentable :
           CartStart(r, op, t, 0)
    \/ CartHandlers
    \/ Tick

SpecGuard == Init /\ [][NextGuard]_vars

\* The catalog endpoints beside a cart that counts an item with a product id.
NextCatalog ==
    \/ Signups({"a@x"}, {"pw"}, {"s1"})
    \/ \E r \in Reqs, t \in issued : CartStart(r, "addtocart", t, 1)
    \/ \E r \in Reqs : AddToCartFind(r)
    \/ \E r \in Reqs : AddToCartUpdate(r)
    \/ \E r \in Reqs, n \in ProductNames : AddProductFind(r, n)
    \/ \E r \in Reqs : AddProductSave(r)
    \/ \E id \in ProductIds : RemoveProduct(id)

SpecCatalog == Init /\ [][NextCatalog]_vars

\* No request is between its arrival and its response.
Quiescent == \A r \in Reqs : Free(r)

\* One account; signups, repeated logins, overlapping cart and catalog
\* changes; logins, product removals and clock steps come between requests.
NextSession ==
    \/ Signups({"a@x"}, {"pw"}, {"s1"})
    \/ Quiescent /\ Login("a@x", "pw")
    \/ \E r \in Reqs, t \in issued : CartStart(r, "addtocart", t, 0)
    \/ \E r \in Reqs : AddToCartFind(r)
    \/ \E r \in Reqs : AddToCartUpdate(r)
    \/ \E r \in Reqs : AddProductFind(r, "shirt")
    \/ \E r \in Reqs : AddProductSave(r)
    \/ Quiescent /\ RemoveProduct(1)
    \/ Quiescent /\ Tick

SpecSession == Init /\ [][NextSession]_vars

\* Two accounts; each one's cart writes overlap the other's, and a getcart
\* arrives when no other request is in flight.
NextOwners ==
    \/ Signups(Emails, {"pw"}, {"s1"})
    \/ \E r \in Reqs, op \in {"addtocart", "removefromcart"}, t \in issued :
           CartStart(r, op, t, 0)
    \/ \E r \in Reqs, t \in issued :
           Quiescent /\ CartStart(r, "getcart", t, 0)
    \/ CartHandlers

SpecOwners == Init /\ [][NextOwners]_vars

\* ============================================================== claims

\* No cart-writing handler of account u is between its arrival and its write.
Quiet(u) ==
    \A r \in Reqs : ~(req[r].user = u /\ Mutating(req[r].op))

\* A response is sent in this step.
Responds == last'.n # last.n

\* C1: when every state-changing request so far was an addtocart of item i
\* on account u (N of them, run in any interleaving, starting from the
\* signup count 0) and all N have completed, the stored cart[i] is N.
C1_ConcurrentIncrements ==
    \A u \in DOMAIN users : \A i \in ItemIds :
        (Quiet(u) /\ net[u][i] = nOps) =>
            Count(users[u].cartData, i) = nOps

\* C2: as long as the cart requests of an account never overlapped, the
\* stored count of every item is its count at signup (0) plus the
\* successful addtocarts minus the successful removefromcarts, and an item
\* with a positive balance has its key in the cart.
C2_SequentialCounts ==
    \A u \in DOMAIN users : \A i \in ItemIds :
        ~raced[u] =>
            /\ Count(users[u].cartData, i) = net[u][i]
            /\ net[u][i] > 0 => i \in DOMAIN users[u].cartData

\* C2 witness: on the unseeded key, an add then a remove (key present, count
\* back to 0), then an add on a seeded key, none overlapping.
C2_Witness ==
    \E u \in DOMAIN users :
        /\ ~raced[u]
        /\ nOps = 3
        /\ CartSlots \in DOMAIN users[u].cartData
        /\ users[u].cartData[CartSlots] = 0
        /\ users[u].cartData[0] = 1

\* The step in which the removefromcart handler in slot r gets its
\* findOne result.
RemoveLoads(r) ==
    /\ req[r].pc = "cart_find"
    /\ req[r].op = "removefromcart"
    /\ req'[r] # req[r]

\* C3: a removefromcart that loads a cart where the item is absent or <= 0
\* answers 400 "Item not found in cart" and writes nothing.
C3_RejectedRemoveWritesNothing ==
    [][\A r \in Reqs :
          (/\ RemoveLoads(r)
           /\ req[r].user \in DOMAIN users
           /\ LET cart == users[req[r].user].cartData
              IN \/ req[r].itemId \notin DOMAIN cart
                 \/ cart[req[r].itemId] <= 0)
          => /\ req'[r].pc = "idle"
             /\ Responds
             /\ last'.req.op = "removefromcart"
             /\ last'.req.itemId = req[r].itemId
             /\ last'.res.status = 400
             /\ last'.res.msg = "Item not found in cart"
             /\ users' = users]_vars

\* C3 witness: a remove was refused on a key that exists and holds 0 after
\* an earlier add and remove.
C3_Witness ==
    /\ last.req.op = "removefromcart"
    /\ last.res.status = 400
    /\ last.req.itemId = CartSlots
    /\ last.req.token.userId \in DOMAIN users
    /\ LET cart == users[last.req.token.userId].cartData
       IN CartSlots \in DOMAIN cart /\ cart[CartSlots] = 0

\* C4: every count stored in every account's cart is a natural number.
C4_CountsNonNegative ==
    \A u \in DOMAIN users :
        \A k \in DOMAIN users[u].cartData : users[u].cartData[k] \in Nat

\* C4 witness: two overlapping removes of a count of 1 both succeeded; the
\* balance is -1 and the stored count 0.
C4_Witness ==
    \E u \in DOMAIN users :
        /\ raced[u]
        /\ net[u][CartSlots] = -1
        /\ Quiet(u)
        /\ users[u].cartData[CartSlots] = 0

\* C5: a signup for an email that is already registered is answered with
\* 400 "Email is already registered!", also when it lost a race with
\* another signup for the same email, and no two accounts share an email.
C5_DuplicateSignupIsConflict ==
    /\ \A u, v \in DOMAIN users : users[u].email = users[v].email => u = v
    /\ (last.req.op = "signup" /\ last.res.status # 201)
           => /\ last.res.status = 400
              /\ last.res.msg = "Email is already registered!"

\* The step in which a login request is answered.
Logins == Responds /\ last'.req.op = "login"

\* A cart with exactly the keys 0..99, each 0.
FreshlySeeded(cart) ==
    DOMAIN cart = 0..99 /\ \A k \in 0..99 : cart[k] = 0

\* C6: a successful signup returns the cart with keys 0..99 all 0, and a
\* login with the email and password an account signed up with returns 200
\* with a token for that account and, while no cart-changing request has
\* been admitted since, that same cart.
C6_SignupThenLogin ==
    /\ []((last.req.op = "signup" /\ last.res.status = 201)
             => FreshlySeeded(last.res.cartData))
    /\ [][\A u \in DOMAIN users :
             (/\ Logins
              /\ users[u].email = last'.req.email
              /\ users[u].password.plain = last'.req.plain)
             => /\ last'.res.status = 200
                /\ last'.res.token.fmt = "jwt"
                /\ last'.res.token.userId = u
                /\ nOps = 0 => FreshlySeeded(last'.res.cartData)]_vars

\* C6 witness: a login with the signup's credentials was answered 200 with
\* the seeded cart before any cart-changing request.
C6_Witness ==
    \E u \in DOMAIN users :
        /\ last.req.op = "login"
        /\ last.req.email = users[u].email
        /\ last.req.plain = users[u].password.plain
        /\ last.res.status = 200
        /\ FreshlySeeded(last.res.cartData)
        /\ nOps = 0

\* The step in which a cart request with token t passes fetchUser and its
\* handler starts in slot r.
Admitted(r, t) ==
    /\ req[r].pc = "idle"
    /\ req'[r].pc = "cart_find"
    /\ req'[r].token = t

\* The step in which a cart request with token t is answered on arrival,
\* no handler starting or moving.
Turned(t) ==
    /\ Responds
    /\ req' = req
    /\ last'.req.op \in CartOps
    /\ last'.req.token = t

\* C7: the token in a signup or login response is bound to the account of
\* that request; presented less than 3600 s after its issue it verifies to
\* that account's id, and presented more than 3600 s after it is answered
\* with the 401 authentication error.
C7_TokenLifetime ==
    /\ []((last.req.op \in {"signup", "login"} /\ last.res.status \in {200, 201})
             => /\ last.res.token \in issued
                /\ last.res.token.userId \in DOMAIN users
                /\ users[last.res.token.userId].email = last.req.email)
    /\ [][\A t \in issued :
             ((\E r \in Reqs : Admitted(r, t)) \/ Turned(t))
             => /\ now < t.iat + 3600 =>
                       \E r \in Reqs : Admitted(r, t) /\ req'[r].user = t.userId
                /\ now > t.iat + 3600 =>
                       Turned(t) /\ last'.res = AuthError]_vars

\* C7 witness: a request was let through with a token issued earlier, and
\* then one with an issued token that has expired was refused.
C7_Witness ==
    /\ \E r \in Reqs :
           /\ req[r].pc = "cart_find"
           /\ req[r].token \in issued
           /\ req[r].token.iat < now
           /\ req[r].user = req[r].token.userId
    /\ last.req.op \in CartOps
    /\ last.res = AuthError
    /\ last.req.token \in issued
    /\ now > last.req.token.iat + 3600

\* C8: login answers 404 when no account has the email, 401 when the
\* account's password is another one, and otherwise 200 with a token for
\* that account and its stored cart; it changes no account and no product.
C8_LoginOutcomes ==
    [][Logins =>
          LET known == {u \in DOMAIN users : users[u].email = last'.req.email}
              res == last'.res
          IN /\ known = {} =>
                    res.status = 404 /\ res.msg = "User not found"
             /\ \A u \in known :
                    IF users[u].password.plain # last'.req.plain
                    THEN res.status = 401 /\ res.msg = "Incorrect password"
                    ELSE /\ res.status = 200
                         /\ res.token.fmt = "jwt"
                         /\ res.token.sig = "secret"
                         /\ res.token.userId = u
                         /\ res.token.iat = now
                         /\ res.cartData = users[u].cartData
             /\ users' = users
             /\ products' = products]_vars

\* C8 witness: a login got 200 with a cart that an addtocart had changed.
C8_Witness ==
    /\ last.req.op = "login"
    /\ last.res.status = 200
    /\ CartSlots \in DOMAIN last.res.cartData
    /\ last.res.cartData[CartSlots] = 1

\* A token that is missing, malformed, signed with another key, or issued
\* more than 3600 s ago.
Bad(t) ==
    \/ t.fmt # "jwt"
    \/ t.sig # "secret"
    \/ t \in issued /\ now > t.iat + 3600

\* C9: a request to addtocart, removefromcart or getcart without a token,
\* with a malformed or badly signed token, or with an expired one, never
\* reaches its handler: it gets the 401 response on arrival, and no account
\* and no product changes.
C9_BadTokenRejected ==
    [][/\ \A r \in Reqs : ~Bad(req'[r].token) \/ ~Admitted(r, req'[r].token)
       /\ (Turned(last'.req.token) /\ Bad(last'.req.token))
          => /\ last'.res.status = 401
             /\ last'.res.msg = "Please authenticate using a valid token"
             /\ users' = users
             /\ products' = products]_vars

\* C9 witness: a removefromcart with an issued token that has expired was
\* refused while the cart holds the item.
C9_Witness ==
    /\ last.req.op = "removefromcart"
    /\ last.req.token \in issued
    /\ last.res = AuthError
    /\ users[last.req.token.userId].cartData[last.req.itemId] = 1

\* The step in which a removeproduct request is answered.
Removes == Responds /\ last'.req.op = "removeproduct"

\* The sequence without its k-th element.
Without(seq, k) == SubSeq(seq, 1, k - 1) \o SubSeq(seq, k + 1, Len(seq))

\* C10: removeproduct(id) takes exactly one product, one with that id, out
\* of the catalog and leaves the rest and all accounts as they were; when
\* no product has the id, nothing changes.
C10_RemoveProductFrame ==
    [][Removes =>
          LET hits == {k \in 1..Len(products) : products[k].id = last'.req.id}
          IN /\ users' = users
             /\ hits = {} => products' = products
             /\ hits # {} =>
                    \E k \in hits : products' = Without(products, k)]_vars

\* C10 witness: product 1 was removed while product 2 stays and a cart still
\* counts item 1.
C10_Witness ==
    /\ last.req.op = "removeproduct"
    /\ last.req.id = 1
    /\ products # << >>
    /\ Head(products).id = 2
    /\ \A k \in 1..Len(products) : products[k].id # 1
    /\ \E u \in DOMAIN users : users[u].cartData[1] >= 1

\* The step in which the addproduct handler in slot r inserts its product.
ProductSaves(r) ==
    /\ req[r].pc = "product_save"
    /\ req'[r].pc = "idle"

\* The largest id among the stored products, 0 for an empty catalog.
MaxId(found) ==
    IF found = << >> THEN 0
    ELSE CHOOSE m \in {found[k].id : k \in 1..Len(found)} :
             \A k \in 1..Len(found) : found[k].id <= m

\* C11: every product addproduct inserts gets id 1 + the largest id stored
\* at the moment of the insert (1 for an empty catalog), whatever addproduct
\* and removeproduct requests came before or overlapped.
C11_IdIsMaxPlusOne ==
    [][\A r \in Reqs :
          ProductSaves(r) =>
              /\ Len(products') = Len(products) + 1
              /\ products'[Len(products')].id = MaxId(products) + 1]_vars

\* C12: in every state, whatever requests were served since it was issued,
\* a token is accepted for its account while less than 3600 s have passed
\* since its issue and rejected once more than 3600 s have passed; its
\* expiry stays at issue time + 3600 s.
C12_ExpiryOnly ==
    \A t \in issued :
        /\ t.exp = t.iat + 3600
        /\ now < t.iat + 3600 => fetchUser(t, now) = t.userId
        /\ now > t.iat + 3600 => fetchUser(t, now) = 0

\* C12 witness: an account holds a token that has expired and one from a
\* later login that is still accepted, after a cart change and a catalog
\* change.
C12_Witness ==
    /\ \E t1, t2 \in issued :
           /\ t1.userId = t2.userId
           /\ t1.iat < t2.iat
           /\ now > t1.iat + 3600
           /\ now < t2.iat + 3600
    /\ \E u \in DOMAIN users : users[u].cartData[0] = 1
    /\ products # << >>

\* A step of the handler of the cart request in slot r.
CartSteps(r) ==
    /\ req[r].op \in CartOps
    /\ req[r].pc # "idle"
    /\ req'[r] # req[r]

\* C13: every handler step of a cart request that came with a token issued
\* for account a runs as account a, leaves every other account as it was,
\* leaves a's name, email and password as they were, writes a's cart only,
\* and a getcart answers with a's stored cart.
C13_OwnCartOnly ==
    [][\A r \in Reqs :
          CartSteps(r) =>
              LET a == req[r].token.userId
              IN /\ req[r].token \in issued
                 /\ req[r].user = a
                 /\ DOMAIN users' = DOMAIN users
                 /\ \A v \in DOMAIN users \ {a} : users'[v] = users[v]
                 /\ users'[a].name = users[a].name
                 /\ users'[a].email = users[a].email
                 /\ users'[a].password = users[a].password
                 /\ req[r].pc = "cart_update" =>
                        users'[a].cartData = req[r].userData
                 /\ req[r].op = "getcart" =>
                        last'.res.cartData = users[a].cartData]_vars

\* C13 witness: the second account's getcart was answered with its own
\* count 0 while the first account's cart counts 1 of the same item.
C13_Witness ==
    /\ Len(users) = 2
    /\ last.req.op = "getcart"
    /\ last.req.token.userId = 2
    /\ last.res.status = 200
    /\ last.res.cartData[0] = 0
    /\ users[1].cartData[0] = 1
    /\ users[2].cartData[0] = 0

\* The step in which the addtocart or removefromcart handler in slot r
\* writes the cart.
CartWrites(r) ==
    /\ req[r].pc = "cart_update"
    /\ req'[r].pc = "idle"

\* C14: the write of an addtocart or removefromcart of item i leaves the
\* stored count of every other item of the account as it was stored just
\* before the write, also when a request for another item of the account
\* overlapped it.
C14_OtherItemsKept ==
    [][\A r \in Reqs :
          (CartWrites(r) /\ req[r].user \in DOMAIN users) =>
              LET old == users[req[r].user].cartData
                  new == users'[req[r].user].cartData
              IN \A j \in (DOMAIN old \cup DOMAIN new) \ {req[r].itemId} :
                     Count(new, j) = Count(old, j)]_vars

\* C15: every issued token names an account that is stored, every cart
\* handler in flight runs as a stored account, no cart request that came
\* with an issued token is answered 404, and no step takes an account out
\* of the store.
C15_TokensHaveAccounts ==
    /\ [](/\ \A t \in issued : t.userId \in DOMAIN users
          /\ \A r \in Reqs :
                 (req[r].op \in CartOps /\ req[r].token \in issued)
                     => req[r].user \in DOMAIN users
          /\ (last.req.op \in CartOps /\ last.req.token \in issued)
                 => last.res.status # 404)
    /\ [][/\ Len(users') >= Len(users)
          /\ \A u \in DOMAIN users : users'[u].email = users[u].email]_vars

\* C15 witness: an addtocart that came with an issued token found its account
\* and was answered with success, and a later request with the token is in
\* its handler.
C15_Witness ==
    /\ last.req.op = "addtocart"
    /\ last.req.token \in issued
    /\ last.res.status = 200
    /\ last.res.msg = "Item added to the cart"
    /\ \E r \in Reqs :
           /\ req[r].pc = "cart_find"
           /\ req[r].token \in issued
           /\ req[r].user \in DOMAIN users

====
